---------------------------- MODULE Spec2Model ----------------------------
(***************************************************************************)
(* A model of oneshot.py, the GSPro launch-monitor client:                 *)
(*   - the message model (Shot, BallData, ShotDataOptions) and its         *)
(*     serialisation asdict_ignore_none / Shot.as_msg,                     *)
(*   - the frame splitter parse_gspro_data, character by character,        *)
(*   - the session GSProSession over a TCP socket.                         *)
(* Text is a sequence of one-character strings; Python values are tagged   *)
(* records [t |-> type, v |-> payload].                                    *)
(***************************************************************************)
EXTENDS Integers, Sequences, FiniteSets, TLC

(***************************************************************************)
(* Python values                                                           *)
(***************************************************************************)
PyNone == [t |-> "None", v |-> 0]
PyBool(b) == [t |-> "bool", v |-> b]
PyInt(n) == [t |-> "int", v |-> n]
PyFloat(i, frac) == [t |-> "float", v |-> <<i, frac>>]
PyStr(chars) == [t |-> "str", v |-> chars]
PyDict(items) == [t |-> "dict", v |-> items]

\* dict[k] = val on an insertion-ordered dict: an existing key keeps its place
DictSet(items, k, val) ==
    IF \E i \in 1..Len(items) : items[i][1] = k
    THEN [i \in 1..Len(items) |-> IF items[i][1] = k THEN <<k, val>> ELSE items[i]]
    ELSE Append(items, <<k, val>>)

DictKeys(d) == {d.v[i][1] : i \in 1..Len(d.v)}

DictGet(d, k) == d.v[CHOOSE i \in 1..Len(d.v) : d.v[i][1] = k][2]

(***************************************************************************)
(* Text: str.find, slicing, digits                                         *)
(***************************************************************************)
SetMin(S) == CHOOSE x \in S : \A y \in S : x <= y

\* data.find(ch, start): the lowest 0-based index >= start holding ch, or -1
str_find(d, ch, start) ==
    LET hits == {i \in start..(Len(d) - 1) : d[i + 1] = ch}
    IN IF hits = {} THEN -1 ELSE SetMin(hits)

\* data[a:b] for 0 <= a, 0 <= b: the characters at 0-based a .. min(b, len) - 1
slice(d, a, b) ==
    LET hi == IF b < Len(d) THEN b ELSE Len(d)
    IN IF hi <= a THEN <<>> ELSE [i \in 1..(hi - a) |-> d[a + i]]

Digit == <<"0", "1", "2", "3", "4", "5", "6", "7", "8", "9">>

IsDigit(c) == \E k \in 1..10 : Digit[k] = c

DigitVal(c) == (CHOOSE k \in 1..10 : Digit[k] = c) - 1

RECURSIVE NatChars(_)
NatChars(n) ==
    IF n < 10 THEN <<Digit[n + 1]>>
    ELSE NatChars(n \div 10) \o <<Digit[(n % 10) + 1]>>

IntChars(n) == IF n < 0 THEN <<"-">> \o NatChars(0 - n) ELSE NatChars(n)

RECURSIVE NatOf(_)
NatOf(chars) ==
    IF Len(chars) = 0 THEN 0
    ELSE 10 * NatOf(SubSeq(chars, 1, Len(chars) - 1)) + DigitVal(chars[Len(chars)])

(***************************************************************************)
(* json.dumps: item_sep and key_sep are the separators of the encoder      *)
(***************************************************************************)
RECURSIVE json_dumps_sep(_, _, _)
RECURSIVE dumps_items(_, _, _, _)
dumps_items(items, i, item_sep, key_sep) ==
    IF i > Len(items) THEN <<>>
    ELSE (IF i > 1 THEN item_sep ELSE <<>>)
         \o <<"\"">> \o items[i][1] \o <<"\"">> \o key_sep
         \o json_dumps_sep(items[i][2], item_sep, key_sep)
         \o dumps_items(items, i + 1, item_sep, key_sep)

json_dumps_sep(x, item_sep, key_sep) ==
    CASE x.t = "None" -> <<"n", "u", "l", "l">>
      [] x.t = "bool" -> IF x.v THEN <<"t", "r", "u", "e">>
                         ELSE <<"f", "a", "l", "s", "e">>
      [] x.t = "int" -> IntChars(x.v)
      [] x.t = "float" -> IntChars(x.v[1]) \o <<".">> \o x.v[2]
      [] x.t = "str" -> <<"\"">> \o x.v \o <<"\"">>
      [] x.t = "dict" -> <<"{">> \o dumps_items(x.v, 1, item_sep, key_sep) \o <<"}">>

\* json.dumps(x) with Python's default separators ", " and ": "
json_dumps(x) == json_dumps_sep(x, <<",", " ">>, <<":", " ">>)

(***************************************************************************)
(* json.loads: a recursive-descent decoder of objects, strings, numbers    *)
(* and the literals null, true, false                                      *)
(***************************************************************************)
ParseFail == [ok |-> FALSE, val |-> PyNone, pos |-> 0]

ParseOk(val, pos) == [ok |-> TRUE, val |-> val, pos |-> pos]

RECURSIVE SkipWs(_, _)
SkipWs(s, i) == IF i <= Len(s) /\ s[i] = " " THEN SkipWs(s, i + 1) ELSE i

RECURSIVE DigitRunEnd(_, _)
DigitRunEnd(s, i) ==
    IF i <= Len(s) /\ IsDigit(s[i]) THEN DigitRunEnd(s, i + 1) ELSE i

StartsWith(s, i, lit) ==
    /\ i + Len(lit) - 1 <= Len(s)
    /\ \A k \in 1..Len(lit) : s[i + k - 1] = lit[k]

\* s[i] is the opening quote; the string runs to the next quote
ParseString(s, i) ==
    LET q == str_find(s, "\"", i)
    IN IF q = -1 THEN ParseFail ELSE ParseOk(PyStr(slice(s, i, q)), q + 2)

ParseNumber(s, i) ==
    LET neg == s[i] = "-"
        i1 == IF neg THEN i + 1 ELSE i
    IN IF ~(i1 <= Len(s) /\ IsDigit(s[i1])) THEN ParseFail
       ELSE LET iend == IF s[i1] = "0" THEN i1 + 1 ELSE DigitRunEnd(s, i1)
                mag == NatOf(SubSeq(s, i1, iend - 1))
                ival == IF neg THEN 0 - mag ELSE mag
                hasfrac == /\ iend + 1 <= Len(s)
                           /\ s[iend] = "."
                           /\ IsDigit(s[iend + 1])
            IN IF hasfrac
               THEN LET fend == DigitRunEnd(s, iend + 1)
                    IN ParseOk(PyFloat(ival, SubSeq(s, iend + 1, fend - 1)), fend)
               ELSE ParseOk(PyInt(ival), iend)

RECURSIVE ParseValue(_, _)
RECURSIVE ParseMembers(_, _, _)
ParseMembers(s, i, acc) ==
    LET k == ParseString(s, i)
        j == SkipWs(s, k.pos)
        j2 == SkipWs(s, j + 1)
        val == ParseValue(s, j2)
        j3 == SkipWs(s, val.pos)
        items == DictSet(acc, k.val.v, val.val)
        j4 == SkipWs(s, j3 + 1)
    IN IF ~k.ok THEN ParseFail
       ELSE IF ~(j <= Len(s) /\ s[j] = ":") THEN ParseFail
       ELSE IF ~val.ok THEN ParseFail
       ELSE IF j3 > Len(s) THEN ParseFail
       ELSE IF s[j3] = "}" THEN ParseOk(PyDict(items), j3 + 1)
       ELSE IF s[j3] # "," THEN ParseFail
       ELSE IF ~(j4 <= Len(s) /\ s[j4] = "\"") THEN ParseFail
       ELSE ParseMembers(s, j4, items)

ParseObject(s, i) ==
    LET j == SkipWs(s, i + 1)
    IN IF j > Len(s) THEN ParseFail
       ELSE IF s[j] = "}" THEN ParseOk(PyDict(<<>>), j + 1)
       ELSE IF s[j] = "\"" THEN ParseMembers(s, j, <<>>)
       ELSE ParseFail

ParseValue(s, i) ==
    IF i > Len(s) THEN ParseFail
    ELSE IF s[i] = "{" THEN ParseObject(s, i)
    ELSE IF s[i] = "\"" THEN ParseString(s, i)
    ELSE IF s[i] = "-" \/ IsDigit(s[i]) THEN ParseNumber(s, i)
    ELSE IF StartsWith(s, i, <<"n", "u", "l", "l">>) THEN ParseOk(PyNone, i + 4)
    ELSE IF StartsWith(s, i, <<"t", "r", "u", "e">>) THEN ParseOk(PyBool(TRUE), i + 4)
    ELSE IF StartsWith(s, i, <<"f", "a", "l", "s", "e">>) THEN ParseOk(PyBool(FALSE), i + 5)
    ELSE ParseFail

\* a variant of json_loads that decodes the first value and ignores what
\* follows it
json_loads_first(s) ==
    LET r == ParseValue(s, SkipWs(s, 1))
    IN IF r.ok THEN [ok |-> TRUE, val |-> r.val] ELSE [ok |-> FALSE, val |-> PyNone]

\* json.loads(s): [ok |-> FALSE] stands for json.decoder.JSONDecodeError
json_loads(s) ==
    LET r == ParseValue(s, SkipWs(s, 1))
    IN IF r.ok /\ SkipWs(s, r.pos) = Len(s) + 1
       THEN [ok |-> TRUE, val |-> r.val]
       ELSE [ok |-> FALSE, val |-> PyNone]

(***************************************************************************)
(* Field names and string literals of the program, as text                 *)
(***************************************************************************)
K_Code == <<"C", "o", "d", "e">>
K_Message == <<"M", "e", "s", "s", "a", "g", "e">>
K_Player == <<"P", "l", "a", "y", "e", "r">>
K_Handed == <<"H", "a", "n", "d", "e", "d">>
K_Club == <<"C", "l", "u", "b">>
K_DistanceToTarget ==
    <<"D", "i", "s", "t", "a", "n", "c", "e", "T", "o", "T", "a", "r", "g", "e", "t">>

K_Xtra == <<"X", "t", "r", "a">>
K_DeviceID == <<"D", "e", "v", "i", "c", "e", "I", "D">>
K_Units == <<"U", "n", "i", "t", "s">>
K_ShotNumber == <<"S", "h", "o", "t", "N", "u", "m", "b", "e", "r">>
K_APIVersion == <<"A", "P", "I", "V", "e", "r", "s", "i", "o", "n">>
K_BallData == <<"B", "a", "l", "l", "D", "a", "t", "a">>
K_ShotDataOptions ==
    <<"S", "h", "o", "t", "D", "a", "t", "a", "O", "p", "t", "i", "o", "n", "s">>
K_Speed == <<"S", "p", "e", "e", "d">>
K_SpinAxis == <<"S", "p", "i", "n", "A", "x", "i", "s">>
K_TotalSpin == <<"T", "o", "t", "a", "l", "S", "p", "i", "n">>
K_HLA == <<"H", "L", "A">>
K_VLA == <<"V", "L", "A">>
K_ContainsBallData ==
    <<"C", "o", "n", "t", "a", "i", "n", "s", "B", "a", "l", "l", "D", "a", "t", "a">>
K_ContainsClubData ==
    <<"C", "o", "n", "t", "a", "i", "n", "s", "C", "l", "u", "b", "D", "a", "t", "a">>
K_LaunchMonitorIsReady ==
    <<"L", "a", "u", "n", "c", "h", "M", "o", "n", "i", "t", "o", "r", "I", "s",
      "R", "e", "a", "d", "y">>
K_LaunchMonitorBallDetected ==
    <<"L", "a", "u", "n", "c", "h", "M", "o", "n", "i", "t", "o", "r", "B", "a",
      "l", "l", "D", "e", "t", "e", "c", "t", "e", "d">>
K_IsHeartbeat == <<"I", "s", "H", "e", "a", "r", "t", "b", "e", "a", "t">>

(***************************************************************************)
(* The message model: dataclass instances are [t |-> class, v |-> fields], *)
(* the fields in declaration order as <<name, value>> pairs                *)
(***************************************************************************)
DataclassNames == {"BallData", "ShotDataOptions", "Shot", "GSProPlayer", "GSProMessage"}

is_dataclass(x) == x.t \in DataclassNames

\* getattr(obj, name)
getattr(obj, name) == DictGet(obj, name)

\* a dict updated with the items of another, in their order
RECURSIVE DictUpdate(_, _)
DictUpdate(items, more) ==
    IF Len(more) = 0 THEN items
    ELSE DictUpdate(DictSet(items, more[1][1], more[1][2]), Tail(more))

\* BallData(Speed, SpinAxis, TotalSpin, HLA, VLA)
NewBallData(speed, spinaxis, totalspin, hla, vla) ==
    [t |-> "BallData",
     v |-> << <<K_Speed, speed>>, <<K_SpinAxis, spinaxis>>,
              <<K_TotalSpin, totalspin>>, <<K_HLA, hla>>, <<K_VLA, vla>> >>]

\* the defaults of ShotDataOptions, lines 23-27
ShotDataOptionsDefaults ==
    << <<K_ContainsBallData, PyBool(TRUE)>>,
       <<K_ContainsClubData, PyBool(FALSE)>>,
       <<K_LaunchMonitorIsReady, PyNone>>,
       <<K_LaunchMonitorBallDetected, PyNone>>,
       <<K_IsHeartbeat, PyNone>> >>

\* ShotDataOptions(**kwargs)
NewShotDataOptions(kwargs) ==
    [t |-> "ShotDataOptions", v |-> DictUpdate(ShotDataOptionsDefaults, kwargs)]

\* the defaults of Shot, lines 32-37
ShotDefaults ==
    << <<K_DeviceID, PyStr(<<"G", "S", "P", "r", "o", " ", "L", "M", " ", "1", ".", "1">>)>>,
       <<K_Units, PyStr(<<"Y", "a", "r", "d", "s">>)>>,
       <<K_ShotNumber, PyInt(-1)>>,
       <<K_APIVersion, PyStr(<<"1">>)>>,
       <<K_BallData, PyNone>>,
       <<K_ShotDataOptions, NewShotDataOptions(<<>>)>> >>

\* the first value of Shot.next_shot_number, line 39
FirstShotNumber == 42

\* a variant of post_init_ShotNumber that keeps a ShotNumber the caller supplied
KeepGivenShotNumber(given, counter) ==
    IF given = PyInt(-1) THEN PyInt(counter) ELSE given

\* __post_init__, line 42: the ShotNumber of a Shot built with ShotNumber
\* `given` while the class counter is `counter`
post_init_ShotNumber(given, counter) == PyInt(counter)

\* Shot(**kwargs) while Shot.next_shot_number = counter
NewShot(kwargs, counter) ==
    LET fields == DictUpdate(ShotDefaults, kwargs)
        given == DictGet([v |-> fields], K_ShotNumber)
    IN [t |-> "Shot",
        v |-> DictSet(fields, K_ShotNumber, post_init_ShotNumber(given, counter))]

\* a variant of HeartbeatKwargs: a heartbeat built with the default options
HeartbeatWithDefaults == <<>>

\* the keyword arguments of Shot.heartbeat(), line 50
HeartbeatKwargs ==
    << <<K_ShotDataOptions,
         NewShotDataOptions(<< <<K_ContainsBallData, PyBool(FALSE)>>,
                               <<K_ContainsClubData, PyBool(FALSE)>>,
                               <<K_IsHeartbeat, PyBool(TRUE)>> >>)>> >>

\* dataclasses.replace(obj, **changes) of a Shot: every field not in changes
\* is taken from obj, then the class is called
ReplaceShot(obj, changes, counter) == NewShot(DictUpdate(obj.v, changes), counter)

\* a variant of KeepField that tests truth instead of "is not None"
DropFalsy(val) == val # PyNone /\ val # PyBool(FALSE)

\* line 147: the fields asdict_ignore_none keeps
KeepField(val) == val # PyNone

RECURSIVE asdict_ignore_none(_)
RECURSIVE asdict_fields(_, _)
asdict_fields(fields, i) ==
    IF i > Len(fields) THEN <<>>
    ELSE LET val == fields[i][2]
             rest == asdict_fields(fields, i + 1)
         IN IF KeepField(val)
            THEN IF is_dataclass(val)
                 THEN <<<<fields[i][1], asdict_ignore_none(val)>>>> \o rest
                 ELSE <<<<fields[i][1], val>>>> \o rest
            ELSE rest

asdict_ignore_none(obj) == PyDict(asdict_fields(obj.v, 1))

\* Shot.as_msg, line 46: the text is ASCII, one byte per character
as_msg(shot) == json_dumps(asdict_ignore_none(shot))

\* the ball data main starts with, line 203
MainBallData ==
    NewBallData(PyInt(75), PyFloat(13, <<"2">>), PyInt(9000), PyInt(-5), PyInt(29))

\* the methods of GSProMessage, lines 67-68, and the one recv_data calls, line 97
GSProMessageMethods == {"create_from_dict"}

RecvFactory == "create"

\* the fields of GSProMessage in declaration order, lines 62-65
GSProMessageFields == <<K_Code, K_Message, K_Player, K_Xtra>>

\* create_from_dict, lines 69-75: [exc |-> "TypeError"] when Code is missing
create_from_dict(dct) ==
    LET known == {GSProMessageFields[i] : i \in 1..Len(GSProMessageFields)}
        rest == SelectSeq(dct.v, LAMBDA kv : kv[1] \notin known)
        has(k) == k \in DictKeys(dct)
        opt(k) == IF has(k) THEN DictGet(dct, k) ELSE PyNone
    IN IF ~has(K_Code)
       THEN [exc |-> "TypeError", val |-> PyNone]
       ELSE [exc |-> "None",
             val |-> [t |-> "GSProMessage",
                      v |-> << <<K_Code, DictGet(dct, K_Code)>>,
                               <<K_Message, opt(K_Message)>>,
                               <<K_Player, opt(K_Player)>>,
                               <<K_Xtra, PyDict(rest)>> >>]]

(***************************************************************************)
(* What the host writes: frames encoded without separators, back to back   *)
(***************************************************************************)
MaxObjs == 3        \* frames in one buffer
MaxFields == 2      \* fields of a generated frame
MaxDepth == 3       \* nesting depth of a generated frame
MaxCut == 3         \* characters a truncation removes from the last frame

\* the host's encoder: compact separators, as in the buffers of test_resp
host_dumps(x) == json_dumps_sep(x, <<",">>, <<":">>)

FieldKey == <<"a", "b", "c", "d", "e", "f">>

RECURSIVE Chain(_)
Chain(k) == IF k <= 1 THEN PyDict(<<>>) ELSE PyDict(<<<<<<"a">>, Chain(k - 1)>>>>)

\* the values of a generated frame: a number, two strings, one of them
\* holding a closing brace, and nested objects
FieldVals ==
    {PyInt(1), PyStr(<<"x">>), PyStr(<<"}">>)} \cup {Chain(k) : k \in 1..(MaxDepth - 1)}

MkFrame(vals) == PyDict([i \in 1..Len(vals) |-> <<<<FieldKey[i]>>, vals[i]>>])

Frames == {MkFrame(vals) : vals \in UNION {[1..n -> FieldVals] : n \in 0..MaxFields}}

SimpleFrame == MkFrame(<<PyInt(1)>>)

Repeat(x, n) == [i \in 1..n |-> x]

\* a buffer's frames: one generated frame among copies of the simple frame
FrameSeqs ==
    {<<>>} \cup
    {Repeat(SimpleFrame, pre) \o <<f>> \o Repeat(SimpleFrame, post) :
        <<pre, f, post>> \in {t \in (0..(MaxObjs - 1)) \X Frames \X (0..(MaxObjs - 1)) :
                                 t[1] + t[3] < MaxObjs}}

RECURSIVE Concat(_)
Concat(texts) == IF Len(texts) = 0 THEN <<>> ELSE Head(texts) \o Concat(Tail(texts))

EncodeAll(frames) == Concat([i \in 1..Len(frames) |-> host_dumps(frames[i])])

JunkChars == {" ", ","}

\* a buffer is the frames back to back, as they are ("ok"), with one stray
\* character before frame at+1 ("junk"), or with the last frame cut short ("cut")
Shapes(frames) ==
    {[kind |-> "ok", at |-> 0, ch |-> ""]}
    \cup {[kind |-> "junk", at |-> p, ch |-> c] : p \in 0..Len(frames), c \in JunkChars}
    \cup {[kind |-> "cut", at |-> k, ch |-> ""] :
            k \in {k \in 1..MaxCut :
                     Len(frames) > 0 /\ k < Len(host_dumps(frames[Len(frames)]))}}

BufferOf(frames, shape) ==
    CASE shape.kind = "ok" -> EncodeAll(frames)
      [] shape.kind = "junk" ->
            EncodeAll(SubSeq(frames, 1, shape.at)) \o <<shape.ch>>
            \o EncodeAll(SubSeq(frames, shape.at + 1, Len(frames)))
      [] shape.kind = "cut" ->
            LET all == EncodeAll(frames) IN SubSeq(all, 1, Len(all) - shape.at)

\* the buffer of test_resp and of the docstring of parse_gspro_data
TestRespData ==
    <<"{", "\"", "C", "o", "d", "e", "\"", ":", "2", "0", "0", ",", "\"",
      "M", "e", "s", "s", "a", "g", "e", "\"", ":", "\"", "B", "a", "l",
      "l", " ", "D", "a", "t", "a", " ", "r", "e", "c", "e", "i", "v", "e",
      "d", "\"", ",", "\"", "P", "l", "a", "y", "e", "r", "\"", ":", "n",
      "u", "l", "l", "}", "{", "\"", "C", "o", "d", "e", "\"", ":", "2",
      "0", "1", ",", "\"", "M", "e", "s", "s", "a", "g", "e", "\"", ":",
      "\"", "G", "S", "P", "r", "o", " ", "P", "l", "a", "y", "e", "r", " ",
      "I", "n", "f", "o", "r", "m", "a", "t", "i", "o", "n", "\"", ",",
      "\"", "P", "l", "a", "y", "e", "r", "\"", ":", "{", "\"", "H", "a",
      "n", "d", "e", "d", "\"", ":", "\"", "R", "H", "\"", ",", "\"", "C",
      "l", "u", "b", "\"", ":", "\"", "D", "R", "\"", ",", "\"", "D", "i",
      "s", "t", "a", "n", "c", "e", "T", "o", "T", "a", "r", "g", "e", "t",
      "\"", ":", "3", "8", "0", ".", "0", "}", "}", "{", "\"", "C", "o",
      "d", "e", "\"", ":", "2", "0", "2", ",", "\"", "M", "e", "s", "s",
      "a", "g", "e", "\"", ":", "\"", "G", "S", "P", "r", "o", " ", "r",
      "e", "a", "d", "y", "\"", ",", "\"", "P", "l", "a", "y", "e", "r",
      "\"", ":", "n", "u", "l", "l", "}", "{", "\"", "C", "o", "d", "e",
      "\"", ":", "2", "0", "3", ",", "\"", "M", "e", "s", "s", "a", "g",
      "e", "\"", ":", "\"", "G", "S", "P", "r", "o", " ", "r", "o", "u",
      "n", "d", " ", "e", "n", "d", "e", "d", "\"", ",", "\"", "P", "l",
      "a", "y", "e", "r", "\"", ":", "n", "u", "l", "l", "}">>

TestRespFrames ==
    << PyDict(<< <<K_Code, PyInt(200)>>,
                 <<K_Message, PyStr(<<"B", "a", "l", "l", " ", "D", "a", "t", "a", " ",
                                      "r", "e", "c", "e", "i", "v", "e", "d">>)>>,
                 <<K_Player, PyNone>> >>),
       PyDict(<< <<K_Code, PyInt(201)>>,
                 <<K_Message, PyStr(<<"G", "S", "P", "r", "o", " ", "P", "l", "a", "y",
                                      "e", "r", " ", "I", "n", "f", "o", "r", "m", "a",
                                      "t", "i", "o", "n">>)>>,
                 <<K_Player, PyDict(<< <<K_Handed, PyStr(<<"R", "H">>)>>,
                                       <<K_Club, PyStr(<<"D", "R">>)>>,
                                       <<K_DistanceToTarget, PyFloat(380, <<"0">>)>> >>)>> >>),
       PyDict(<< <<K_Code, PyInt(202)>>,
                 <<K_Message, PyStr(<<"G", "S", "P", "r", "o", " ", "r", "e", "a", "d",
                                      "y">>)>>,
                 <<K_Player, PyNone>> >>),
       PyDict(<< <<K_Code, PyInt(203)>>,
                 <<K_Message, PyStr(<<"G", "S", "P", "r", "o", " ", "r", "o", "u", "n",
                                      "d", " ", "e", "n", "d", "e", "d">>)>>,
                 <<K_Player, PyNone>> >>) >>

Inputs ==
    {[frames |-> fs, shape |-> sh, data |-> BufferOf(fs, sh)] :
        <<fs, sh>> \in {t \in FrameSeqs \X UNION {Shapes(fs) : fs \in FrameSeqs} :
                          t[2] \in Shapes(t[1])}}
    \cup {[frames |-> TestRespFrames,
           shape |-> [kind |-> "ok", at |-> 0, ch |-> ""],
           data |-> TestRespData]}

(***************************************************************************)
(* parse_gspro_data                                                        *)
(***************************************************************************)
VARIABLES
    \* parse_gspro_data: the argument and the locals
    frames,                 \* the frames the host encoded into data
    shape,                  \* how data was made from them
    data,                   \* the argument, decoded to str
    len_processed,
    result,
    msg,
    start,
    idx_of_close_bracket,
    substr,
    ppc,                    \* "while", "probe", "return", "AssertionError"
    \* Shot.as_msg
    ser_shot,               \* the Shot being serialised
    ser_out,                \* the bytes as_msg returned
    spc,                    \* "built", "done"
    \* decoding one reply, as test_resp does
    dec_reply,              \* the object the host encoded
    dec_text,               \* its text
    dec_dct,                \* what json.loads made of the text
    dec_out,                \* how create_from_dict ended, and its GSProMessage
    dpc,                    \* "text", "loaded", "done"
    \* the process: the Shot class, one GSProSession, its socket
    next_shot_number,       \* Shot.next_shot_number
    shots,                  \* every Shot constructed, in construction order
    sock,                   \* "unopened", "open", "closed"
    shots_and_responses,    \* the session log
    rx,                     \* bytes of the host that arrived and are unread
    peer_closed,            \* the host closed its end
    tx,                     \* how many writes the transport accepted
    last                    \* the last call of the caller, the bytes it handed to
                            \* or got from the socket, and how it ended

pvars == <<frames, shape, data, len_processed, result, msg, start,
           idx_of_close_bracket, substr, ppc>>

svars == <<ser_shot, ser_out, spc>>

mvars == <<next_shot_number, shots, sock, shots_and_responses, rx, peer_closed,
           tx, last>>

dvars == <<dec_reply, dec_text, dec_dct, dec_out, dpc>>

vars == <<pvars, svars, mvars, dvars>>

\* the variables of a part of the program that is not running
ParseIdle ==
    /\ frames = <<>>
    /\ shape = [kind |-> "ok", at |-> 0, ch |-> ""]
    /\ data = <<>>
    /\ len_processed = 0
    /\ result = <<>>
    /\ msg = PyNone
    /\ start = 0
    /\ idx_of_close_bracket = 0
    /\ substr = <<>>
    /\ ppc = "idle"

SerialIdle ==
    /\ ser_shot = PyNone
    /\ ser_out = <<>>
    /\ spc = "idle"

DecodeIdle ==
    /\ dec_reply = PyNone
    /\ dec_text = <<>>
    /\ dec_dct = PyNone
    /\ dec_out = [exc |-> "None", val |-> PyNone]
    /\ dpc = "idle"

NoCall == [op |-> "none", exc |-> "None", ret |-> PyNone, bytes |-> <<>>,
           nbytes |-> 0, len |-> 0]

SessionIdle ==
    /\ next_shot_number = FirstShotNumber
    /\ shots = <<>>
    /\ sock = "unopened"
    /\ shots_and_responses = <<>>
    /\ rx = <<>>
    /\ peer_closed = FALSE
    /\ tx = 0
    /\ last = NoCall

\* a variant of CursorOk that checks the first byte of the buffer only
CursorOkAtStartOnly(d, pos) == pos > 0 \/ d[1] = "{"

\* the assert of line 178
CursorOk(d, pos) == d[pos + 1] = "{"

\* line 189: the probe position after a failed trial parse
NextStart(st, sub) == st + Len(sub)

\* a variant of Trial that accepts a prefix when its braces balance
TrialByBraceCount(d, lp, st) ==
    LET idx == str_find(d, "}", st)
        sub == slice(d, lp, idx + 1)
        count(ch) == Cardinality({i \in 1..Len(sub) : sub[i] = ch})
    IN [idx |-> idx, substr |-> sub,
        loaded |-> [ok |-> idx >= 0 /\ count("{") = count("}"), val |-> json_loads(sub).val]]

\* lines 182-186: one trial of the probe loop
Trial(d, lp, st) ==
    LET idx == str_find(d, "}", st)
        sub == slice(d, lp, idx + 1)
    IN [idx |-> idx, substr |-> sub, loaded |-> json_loads(sub)]

InitParse ==
    /\ \E inp \in Inputs :
          /\ frames = inp.frames
          /\ shape = inp.shape
          /\ data = inp.data
    /\ len_processed = 0
    /\ result = <<>>
    /\ msg = PyNone
    /\ start = 0
    /\ idx_of_close_bracket = 0
    /\ substr = <<>>
    /\ ppc = "while"
    /\ SerialIdle
    /\ SessionIdle
    /\ DecodeIdle

\* line 177 false, line 192
ParseReturn ==
    /\ ppc = "while"
    /\ ~(len_processed < Len(data))
    /\ ppc' = "return"
    /\ UNCHANGED <<frames, shape, data, len_processed, result, msg, start,
                   idx_of_close_bracket, substr, svars, mvars, dvars>>

\* line 178 failing
ParseAssertFails ==
    /\ ppc = "while"
    /\ len_processed < Len(data)
    /\ ~CursorOk(data, len_processed)
    /\ ppc' = "AssertionError"
    /\ UNCHANGED <<frames, shape, data, len_processed, result, msg, start,
                   idx_of_close_bracket, substr, svars, mvars, dvars>>

\* lines 177-180
ParseBeginObject ==
    /\ ppc = "while"
    /\ len_processed < Len(data)
    /\ CursorOk(data, len_processed)
    /\ msg' = PyNone
    /\ start' = len_processed
    /\ ppc' = "probe"
    /\ UNCHANGED <<frames, shape, data, len_processed, result,
                   idx_of_close_bracket, substr, svars, mvars, dvars>>

\* lines 181-189 with the trial parse failing
ProbeFails ==
    /\ ppc = "probe"
    /\ LET tr == Trial(data, len_processed, start)
       IN /\ ~tr.loaded.ok
          /\ idx_of_close_bracket' = tr.idx
          /\ substr' = tr.substr
          /\ start' = NextStart(start, tr.substr)
    /\ UNCHANGED <<frames, shape, data, len_processed, result, msg, ppc, svars, mvars, dvars>>

\* lines 181-186 with the trial parse succeeding, then lines 190-191
ProbeSucceeds ==
    /\ ppc = "probe"
    /\ LET tr == Trial(data, len_processed, start)
       IN /\ tr.loaded.ok
          /\ idx_of_close_bracket' = tr.idx
          /\ substr' = tr.substr
          /\ msg' = tr.loaded.val
          /\ result' = Append(result, tr.loaded.val)
          /\ len_processed' = len_processed + Len(tr.substr)
    /\ ppc' = "while"
    /\ UNCHANGED <<frames, shape, data, start, svars, mvars, dvars>>

NextParse ==
    \/ ParseReturn
    \/ ParseAssertFails
    \/ ParseBeginObject
    \/ ProbeFails
    \/ ProbeSucceeds

SpecParse == InitParse /\ [][NextParse]_vars

\* the probe loop repeats its iteration without changing any variable:
\* the call never returns
LoopsForever ==
    /\ ppc = "probe"
    /\ LET tr == Trial(data, len_processed, start)
       IN /\ ~tr.loaded.ok
          /\ tr.idx = idx_of_close_bracket
          /\ tr.substr = substr
          /\ NextStart(start, tr.substr) = start

\* parse_gspro_data as a function of its argument: what it returns or raises;
\* "Hang" when the probe loop can no longer advance
RECURSIVE probe_loop(_, _, _)
probe_loop(d, lp, st) ==
    LET tr == Trial(d, lp, st)
    IN IF tr.loaded.ok THEN [hang |-> FALSE, substr |-> tr.substr, msg |-> tr.loaded.val]
       ELSE IF NextStart(st, tr.substr) = st
            THEN [hang |-> TRUE, substr |-> <<>>, msg |-> PyNone]
            ELSE probe_loop(d, lp, NextStart(st, tr.substr))

RECURSIVE parse_from(_, _, _)
parse_from(d, lp, res) ==
    IF ~(lp < Len(d)) THEN [exc |-> "None", result |-> res]
    ELSE IF ~CursorOk(d, lp) THEN [exc |-> "AssertionError", result |-> <<>>]
    ELSE LET p == probe_loop(d, lp, lp)
         IN IF p.hang THEN [exc |-> "Hang", result |-> <<>>]
            ELSE parse_from(d, lp + Len(p.substr), Append(res, p.msg))

parse_gspro_data(d) == parse_from(d, 0, <<>>)

\* the step-by-step run and the function agree on how a call ends
ParseAgrees ==
    LET r == parse_gspro_data(data)
    IN /\ ppc = "return" => r.exc = "None" /\ r.result = result
       /\ ppc = "AssertionError" => r.exc = "AssertionError"
       /\ LoopsForever => r.exc = "Hang"

(***************************************************************************)
(* Claims about parse_gspro_data, checked under SpecParse                  *)
(***************************************************************************)

\* C1: for every buffer that is n >= 0 well-formed objects back to back, the
\* call terminates (it neither raises nor loops forever) and returns exactly
\* the n objects in their order.
C1_SplitsWellFormedBuffers ==
    shape.kind = "ok" =>
        /\ ~LoopsForever
        /\ ppc # "AssertionError"
        /\ ppc = "return" => result = frames

\* C8: whenever the byte at the cursor is not "{" when an object is to start,
\* at offset 0 or after complete objects were consumed, the call raises
\* (AssertionError) and never returns a list afterwards.
C8_NonBraceAtCursorRaises ==
    [][/\ (ppc = "while" /\ len_processed < Len(data) /\ data[len_processed + 1] # "{")
            => ppc' = "AssertionError"
       /\ ppc = "AssertionError" => ppc' = "AssertionError"]_vars

\* C8 witness: the assert failed at a cursor reached after a complete object
C8_RaisedAfterAnObject ==
    /\ ppc = "AssertionError"
    /\ len_processed > 0
    /\ Len(result) >= 1

\* C9: for a buffer that ends in a truncated object the call terminates: it
\* does not loop forever, and it does not raise the error of a bad first byte.
C9_TruncatedBufferTerminates ==
    shape.kind = "cut" =>
        /\ ~LoopsForever
        /\ ppc # "AssertionError"


(***************************************************************************)
(* Shot.as_msg on the Shots a caller can build                             *)
(***************************************************************************)
Tristate == {PyNone, PyBool(TRUE), PyBool(FALSE)}

AllShotDataOptions ==
    {NewShotDataOptions(<< <<K_ContainsBallData, PyBool(cb)>>,
                           <<K_ContainsClubData, PyBool(cc)>>,
                           <<K_LaunchMonitorIsReady, rd>>,
                           <<K_LaunchMonitorBallDetected, bd>>,
                           <<K_IsHeartbeat, hb>> >>) :
        <<cb, cc, rd, bd, hb>> \in BOOLEAN \X BOOLEAN \X Tristate \X Tristate \X Tristate}

SerialShots ==
    {NewShot(<< <<K_BallData, ball>>, <<K_ShotDataOptions, opts>> >>, n) :
        <<ball, opts, n>> \in {PyNone, MainBallData} \X AllShotDataOptions
                              \X {FirstShotNumber, FirstShotNumber + 1}}

InitSerial ==
    /\ ser_shot \in SerialShots
    /\ ser_out = <<>>
    /\ spc = "built"
    /\ ParseIdle
    /\ SessionIdle
    /\ DecodeIdle

Serialize ==
    /\ spc = "built"
    /\ ser_out' = as_msg(ser_shot)
    /\ spc' = "done"
    /\ UNCHANGED <<ser_shot, pvars, mvars, dvars>>

NextSerial == Serialize

SpecSerial == InitSerial /\ [][NextSerial]_vars

(***************************************************************************)
(* Claims about Shot.as_msg, checked under SpecSerial                      *)
(***************************************************************************)

\* the decoded object d has exactly the fields of obj that are not None, each
\* with its value, nested dataclasses likewise
RECURSIVE HoldsSetFieldsOf(_, _)
HoldsSetFieldsOf(d, obj) ==
    /\ d.t = "dict"
    /\ DictKeys(d) = {obj.v[i][1] : i \in {j \in 1..Len(obj.v) : obj.v[j][2] # PyNone}}
    /\ \A i \in 1..Len(obj.v) :
          LET name == obj.v[i][1]
              val == obj.v[i][2]
          IN val # PyNone =>
                IF val.t \in DataclassNames
                THEN HoldsSetFieldsOf(DictGet(d, name), val)
                ELSE DictGet(d, name) = val

\* C10: the serialised Shot decodes to an object whose keys are exactly the
\* fields that are not None, recursively: required fields present, unset
\* optional flags omitted, a flag set to false present; with the default
\* ShotDataOptions the keys are ContainsBallData:true, ContainsClubData:false.
C10_SerializedKeysAreSetFields ==
    spc = "done" =>
        LET d == json_loads(ser_out)
        IN /\ d.ok
           /\ HoldsSetFieldsOf(d.val, ser_shot)
           /\ getattr(ser_shot, K_ShotDataOptions) = NewShotDataOptions(<<>>)
                 => DictGet(d.val, K_ShotDataOptions)
                        = PyDict(<< <<K_ContainsBallData, PyBool(TRUE)>>,
                                    <<K_ContainsClubData, PyBool(FALSE)>> >>)

\* C10 witness: a Shot with ball data whose options have one optional flag
\* set to false and another left unset has been serialised
C10_SerializedExplicitFalse ==
    /\ spc = "done"
    /\ getattr(ser_shot, K_BallData) = MainBallData
    /\ getattr(getattr(ser_shot, K_ShotDataOptions), K_IsHeartbeat) = PyBool(FALSE)
    /\ getattr(getattr(ser_shot, K_ShotDataOptions), K_LaunchMonitorIsReady) = PyNone


(***************************************************************************)
(* Decoding a reply: json.loads, then GSProMessage.create_from_dict        *)
(***************************************************************************)
K_Other == <<"R", "o", "u", "n", "d">>

KnownFields == {K_Code, K_Message, K_Player}

\* the values a reply can hold under each key; Absent: the key is not there
Absent == [t |-> "absent", v |-> 0]

ReplyValues ==
    << <<K_Code, {Absent, PyInt(200)}>>,
       <<K_Message, {Absent, PyNone, PyStr(<<"o", "k">>)}>>,
       <<K_Player, {Absent, PyNone, PyDict(<< <<K_Handed, PyStr(<<"R", "H">>)>> >>)}>>,
       <<K_Xtra, {Absent, PyInt(5)}>>,
       <<K_Other, {Absent, PyNone, PyInt(1)}>> >>

Replies ==
    {PyDict(SelectSeq([i \in 1..Len(ReplyValues) |-> <<ReplyValues[i][1], vals[i]>>],
                      LAMBDA kv : kv[2] # Absent)) :
        vals \in {f \in [1..Len(ReplyValues) -> UNION {ReplyValues[i][2] : i \in 1..Len(ReplyValues)}] :
                    \A i \in 1..Len(ReplyValues) : f[i] \in ReplyValues[i][2]}}

InitDecode ==
    /\ dec_reply \in Replies
    /\ dec_text = host_dumps(dec_reply)
    /\ dec_dct = PyNone
    /\ dec_out = [exc |-> "None", val |-> PyNone]
    /\ dpc = "text"
    /\ ParseIdle
    /\ SerialIdle
    /\ SessionIdle

\* json.loads of the reply, as parse_gspro_data does at line 186
DecodeLoads ==
    /\ dpc = "text"
    /\ json_loads(dec_text).ok
    /\ dec_dct' = json_loads(dec_text).val
    /\ dpc' = "loaded"
    /\ UNCHANGED <<dec_reply, dec_text, dec_out, pvars, svars, mvars>>

\* GSProMessage.create_from_dict(dct), line 259
DecodeCreate ==
    /\ dpc = "loaded"
    /\ dec_out' = create_from_dict(dec_dct)
    /\ dpc' = "done"
    /\ UNCHANGED <<dec_reply, dec_text, dec_dct, pvars, svars, mvars>>

NextDecode ==
    \/ DecodeLoads
    \/ DecodeCreate

SpecDecode == InitDecode /\ [][NextDecode]_vars

\* C12: a decoded reply has lost no top-level field: Code, Message and Player
\* of the GSProMessage are the reply's values for those keys, and Xtra holds
\* every other key of the reply, whatever its name, with its value and
\* nothing else.
C12_DecodeKeepsEveryField ==
    (dpc = "done" /\ dec_out.exc = "None") =>
        LET m == dec_out.val
            others == DictKeys(dec_reply) \ KnownFields
        IN /\ \A k \in KnownFields \cap DictKeys(dec_reply) :
                 getattr(m, k) = DictGet(dec_reply, k)
           /\ DictKeys(getattr(m, K_Xtra)) = others
           /\ \A k \in others : DictGet(getattr(m, K_Xtra), k) = DictGet(dec_reply, k)

\* C13: decoding ends normally whichever of Code, Message and Player the
\* reply holds, and each of them that is missing is unset in the GSProMessage.
C13_DecodeNeedsNoKnownField ==
    dpc = "done" =>
        /\ dec_out.exc = "None"
        /\ \A k \in KnownFields \ DictKeys(dec_reply) : getattr(dec_out.val, k) = PyNone

(***************************************************************************)
(* The process: Shot constructions, one GSProSession and the host behind   *)
(* its socket                                                              *)
(***************************************************************************)
MaxShots == 3         \* Shot constructions
MaxLog == 2           \* entries of the session log

\* sock.recv(2048), line 95
RECV_SIZE == 2048

\* what the host sends in whole frames: one reply, or two replies back to back
\* (the second with a nested Player)
HostReplies == {SubSeq(TestRespFrames, 1, k) : k \in 1..2}

\* the chunks the host writes: the replies, and the first bytes of a reply
\* whose rest is delayed
HostChunks ==
    {EncodeAll(fs) : fs \in HostReplies}
        \cup {SubSeq(EncodeAll(SubSeq(TestRespFrames, 1, 1)), 1, 11)}

\* a variant of SockUsable: a closed socket still works
SockUsableAlways(s) == TRUE

\* the socket calls of send_shot, recv_data and data_available work on a
\* socket that was not closed; on a closed one they raise
SockUsable(s) == s = "open"

\* a variant of ShortWrite that notices only a write of nothing
NothingWritten(n, nbytes_sent) == nbytes_sent = 0

\* line 110
ShortWrite(n, nbytes_sent) == n # nbytes_sent

\* a variant of LogAppend that starts the log over
LogRestart(log, entry) == <<entry>>

\* line 107
LogAppend(log, entry) == Append(log, entry)

\* line 98
LogExtend(log, entries) == log \o entries

\* what sock.send(shot_data) returns for n bytes: all of them, or fewer
WriteCounts(n) == {n} \cup {k \in {1} : k < n}

Call(op, exc) == [op |-> op, exc |-> exc, ret |-> PyNone, bytes |-> <<>>,
                  nbytes |-> 0, len |-> 0]

Running == last.exc # "Hang"

ShotNumberOf(shot) == getattr(shot, K_ShotNumber).v

Init ==
    /\ SessionIdle
    /\ ParseIdle
    /\ SerialIdle
    /\ DecodeIdle

\* a Shot was constructed: __post_init__ has taken a number, line 43
Constructed(shot, by, given) ==
    /\ shots' = Append(shots, [shot |-> shot, by |-> by, given |-> given])
    /\ next_shot_number' = next_shot_number + 1

\* Shot(BallData=ball), as at line 203, or Shot()
ShotConstruct(ball) ==
    /\ Running
    /\ Len(shots) < MaxShots
    /\ Constructed(NewShot(<< <<K_BallData, ball>> >>, next_shot_number), "Shot", PyNone)
    /\ UNCHANGED <<sock, shots_and_responses, rx, peer_closed, tx, last,
                   pvars, svars, dvars>>

\* Shot.heartbeat(), lines 48-50
ShotHeartbeat ==
    /\ Running
    /\ Len(shots) < MaxShots
    /\ Constructed(NewShot(HeartbeatKwargs, next_shot_number), "heartbeat", PyNone)
    /\ UNCHANGED <<sock, shots_and_responses, rx, peer_closed, tx, last,
                   pvars, svars, dvars>>

\* replace(shot, ShotNumber=given), as at line 228
ShotReplaceNumber(i, given) ==
    /\ Running
    /\ Len(shots) < MaxShots
    /\ Constructed(ReplaceShot(shots[i].shot, << <<K_ShotNumber, PyInt(given)>> >>,
                               next_shot_number),
                   "replace", PyInt(given))
    /\ UNCHANGED <<sock, shots_and_responses, rx, peer_closed, tx, last,
                   pvars, svars, dvars>>

\* replace(shot, BallData=replace(shot.BallData, Speed=80.0)), as at line 221
ShotReplaceField(i) ==
    /\ Running
    /\ Len(shots) < MaxShots
    /\ getattr(shots[i].shot, K_BallData) # PyNone
    /\ LET ball == getattr(shots[i].shot, K_BallData)
           newball == [ball EXCEPT !.v = DictSet(ball.v, K_Speed, PyFloat(80, <<"0">>))]
       IN Constructed(ReplaceShot(shots[i].shot, << <<K_BallData, newball>> >>,
                                  next_shot_number),
                      "replace", PyNone)
    /\ UNCHANGED <<sock, shots_and_responses, rx, peer_closed, tx, last,
                   pvars, svars, dvars>>

\* GSProSession(), lines 80-88: the connect succeeds or raises
Open ==
    /\ Running
    /\ sock = "unopened"
    /\ \/ /\ sock' = "open"
          /\ shots_and_responses' = <<>>
          /\ last' = Call("init", "None")
       \/ /\ last' = Call("init", "OSError")
          /\ UNCHANGED <<sock, shots_and_responses>>
    /\ UNCHANGED <<next_shot_number, shots, rx, peer_closed, tx,
                   pvars, svars, dvars>>

\* send_shot(golfshot), lines 101-111, called as op
send_shot(golfshot, op) ==
    LET shot_data == as_msg(golfshot)
        n == Len(shot_data)
    IN /\ shots_and_responses' = LogAppend(shots_and_responses, golfshot)
       /\ \/ /\ ~SockUsable(sock) \/ peer_closed
             /\ last' = [Call(op, "OSError") EXCEPT !.bytes = shot_data, !.len = n]
             /\ tx' = tx
          \/ /\ SockUsable(sock)
             /\ \E nbytes_sent \in WriteCounts(n) :
                   /\ tx' = tx + 1
                   /\ last' = [Call(op, IF ShortWrite(n, nbytes_sent)
                                        THEN "ValueError" ELSE "None")
                                  EXCEPT !.bytes = shot_data,
                                         !.nbytes = nbytes_sent, !.len = n]

SendShot(i) ==
    /\ Running
    /\ sock # "unopened"
    /\ Len(shots_and_responses) < MaxLog
    /\ send_shot(shots[i].shot, "send_shot")
    /\ UNCHANGED <<next_shot_number, shots, sock, rx, peer_closed, 
                   pvars, svars, dvars>>

\* send_heartbeat, lines 90-91
SendHeartbeat ==
    /\ Running
    /\ sock # "unopened"
    /\ Len(shots_and_responses) < MaxLog
    /\ Len(shots) < MaxShots
    /\ LET hb == NewShot(HeartbeatKwargs, next_shot_number)
       IN /\ Constructed(hb, "heartbeat", PyNone)
          /\ send_shot(hb, "send_heartbeat")
    /\ UNCHANGED <<sock, rx, peer_closed,  pvars, svars, dvars>>

\* line 97: the messages built from the parsed objects
BuildMessages(dcts) ==
    IF Len(dcts) > 0 /\ RecvFactory \notin GSProMessageMethods
    THEN [exc |-> "AttributeError", msgs |-> <<>>]
    ELSE IF \E i \in 1..Len(dcts) : create_from_dict(dcts[i]).exc # "None"
    THEN [exc |-> "TypeError", msgs |-> <<>>]
    ELSE [exc |-> "None", msgs |-> [i \in 1..Len(dcts) |-> create_from_dict(dcts[i]).val]]

\* lines 97-99 after the parse ended as `parsed`
AfterParse(parsed) ==
    IF parsed.exc # "None" THEN [exc |-> parsed.exc, msgs |-> <<>>]
    ELSE BuildMessages(parsed.result)

\* lines 95-99 for the bytes the read returned
recv_data(resp_bytes, out) ==
    /\ rx' = slice(rx, Len(resp_bytes), Len(rx))
    /\ shots_and_responses' = LogExtend(shots_and_responses, out.msgs)
    /\ last' = [Call("recv_data", out.exc) EXCEPT !.bytes = resp_bytes]

\* recv_data, lines 93-99; the call blocks while nothing has arrived and the
\* host has not closed
RecvData ==
    /\ Running
    /\ sock # "unopened"
    /\ IF ~SockUsable(sock)
       THEN /\ last' = Call("recv_data", "OSError")
            /\ UNCHANGED <<rx, shots_and_responses>>
       ELSE /\ rx # <<>> \/ peer_closed
            /\ recv_data(slice(rx, 0, RECV_SIZE),
                         AfterParse(parse_gspro_data(slice(rx, 0, RECV_SIZE))))
    /\ UNCHANGED <<next_shot_number, shots, sock, peer_closed, tx,
                   pvars, svars, dvars>>

\* data_available, lines 113-118: select with a zero timeout
DataAvailable ==
    /\ Running
    /\ sock # "unopened"
    /\ last' = IF SockUsable(sock)
               THEN [Call("data_available", "None")
                        EXCEPT !.ret = PyBool(rx # <<>> \/ peer_closed)]
               ELSE Call("data_available", "ValueError")
    /\ UNCHANGED <<next_shot_number, shots, sock, shots_and_responses, rx,
                   peer_closed, tx,  pvars, svars, dvars>>

\* close, lines 120-121
Close ==
    /\ Running
    /\ sock # "unopened"
    /\ sock' = "closed"
    /\ last' = Call("close", "None")
    /\ UNCHANGED <<next_shot_number, shots, shots_and_responses, rx, peer_closed,
                   tx,  pvars, svars, dvars>>

\* the host writes a chunk and it arrives, once the bytes before it were read
HostWrites(chunk) ==
    /\ sock = "open"
    /\ ~peer_closed
    /\ rx = <<>>
    /\ rx' = chunk
    /\ UNCHANGED <<next_shot_number, shots, sock, shots_and_responses, peer_closed,
                   tx, last, pvars, svars, dvars>>

\* the host closes its end of the connection
HostCloses ==
    /\ sock = "open"
    /\ ~peer_closed
    /\ peer_closed' = TRUE
    /\ UNCHANGED <<next_shot_number, shots, sock, shots_and_responses, rx, tx,
                    last, pvars, svars, dvars>>

\* the calls on a session and what the host does, with the Shots of main
Next ==
    \/ ShotConstruct(MainBallData)
    \/ Open
    \/ \E i \in 1..Len(shots) : SendShot(i)
    \/ SendHeartbeat
    \/ RecvData
    \/ DataAvailable
    \/ Close
    \/ \E chunk \in HostChunks : HostWrites(chunk)
    \/ HostCloses

Spec == Init /\ [][Next]_vars

\* every way of constructing a Shot, with and without a session
NextShots ==
    \/ \E ball \in {PyNone, MainBallData} : ShotConstruct(ball)
    \/ ShotHeartbeat
    \/ \E i \in 1..Len(shots) :
          \E given \in {ShotNumberOf(shots[i].shot) + 1, FirstShotNumber} :
             ShotReplaceNumber(i, given)
    \/ \E i \in 1..Len(shots) : ShotReplaceField(i)
    \/ Open
    \/ SendHeartbeat
    \/ Close

SpecShots == Init /\ [][NextShots]_vars

(***************************************************************************)
(* main: the command loop, lines 195-241                                   *)
(***************************************************************************)
MaxMainShots == 5     \* Shot constructions of one run of main

\* main goes on reading commands: the session was opened, no call has raised
\* and quit was not given
MainRunning == sock = "open" /\ last.exc = "None"

\* curr_shot: every assignment to it is a construction, and the only Shots
\* built otherwise are the heartbeats of send_heartbeat
curr_shot ==
    LET own == {i \in 1..Len(shots) : shots[i].by # "heartbeat"}
    IN shots[CHOOSE i \in own : \A j \in own : j <= i].shot

\* lines 203-204: the first Shot, then GSProSession(), whose connect may raise
MainStart ==
    /\ shots = <<>>
    /\ sock = "unopened"
    /\ last = NoCall
    /\ Constructed(NewShot(<< <<K_BallData, MainBallData>> >>, next_shot_number),
                   "Shot", PyNone)
    /\ \/ /\ sock' = "open"
          /\ last' = Call("init", "None")
       \/ /\ sock' = sock
          /\ last' = Call("init", "OSError")
    /\ UNCHANGED <<shots_and_responses, rx, peer_closed, tx, pvars, svars, dvars>>

\* lines 217-221: a field of the ball data is set, here Speed to 80.0
CmdField ==
    /\ MainRunning
    /\ Len(shots) < MaxMainShots
    /\ LET ball == getattr(curr_shot, K_BallData)
           newball == [ball EXCEPT !.v = DictSet(ball.v, K_Speed, PyFloat(80, <<"0">>))]
       IN Constructed(ReplaceShot(curr_shot, << <<K_BallData, newball>> >>,
                                  next_shot_number),
                      "replace", PyNone)
    /\ UNCHANGED <<sock, shots_and_responses, rx, peer_closed, tx, last,
                   pvars, svars, dvars>>

\* a variant of HitShot: the current Shot is sent as it is
HitShotAsIs(curr, counter) == curr

\* line 228: the Shot a hit sends
HitShot(curr, counter) ==
    ReplaceShot(curr, << <<K_ShotNumber, PyInt(ShotNumberOf(curr) + 1)>> >>, counter)

\* lines 227-230: hit
CmdHit ==
    /\ MainRunning
    /\ Len(shots) < MaxMainShots
    /\ Constructed(HitShot(curr_shot, next_shot_number), "replace",
                   PyInt(ShotNumberOf(curr_shot) + 1))
    /\ send_shot(HitShot(curr_shot, next_shot_number), "send_shot")
    /\ UNCHANGED <<sock, rx, peer_closed, pvars, svars, dvars>>

\* lines 231-232: hb
CmdHb ==
    /\ MainRunning
    /\ Len(shots) < MaxMainShots
    /\ Constructed(NewShot(HeartbeatKwargs, next_shot_number), "heartbeat", PyNone)
    /\ send_shot(NewShot(HeartbeatKwargs, next_shot_number), "send_heartbeat")
    /\ UNCHANGED <<sock, rx, peer_closed, pvars, svars, dvars>>

\* lines 233-234: avail
CmdAvail == MainRunning /\ DataAvailable

\* lines 235-236: recv
CmdRecv == MainRunning /\ RecvData

\* lines 237-239: quit
CmdQuit == MainRunning /\ Close

NextMain ==
    \/ MainStart
    \/ CmdField
    \/ CmdHit
    \/ CmdHb
    \/ CmdAvail
    \/ CmdRecv
    \/ CmdQuit
    \/ \E chunk \in HostChunks : HostWrites(chunk)
    \/ HostCloses

SpecMain == Init /\ [][NextMain]_vars

(***************************************************************************)
(* Claims about Shot construction, checked under SpecShots                 *)
(***************************************************************************)

\* C2: whatever way Shots are constructed (directly, by Shot.heartbeat(), by
\* replace() with or without a ShotNumber, by a session's send_heartbeat),
\* each has a ShotNumber strictly greater than that of every Shot constructed
\* before it; in particular no two are equal.
C2_ShotNumbersStrictlyIncrease ==
    \A i, j \in 1..Len(shots) :
        i < j => ShotNumberOf(shots[i].shot) < ShotNumberOf(shots[j].shot)

\* C2 witness: a direct Shot, then a copy made by replace() that was given the
\* ShotNumber of the first, then a heartbeat built and sent by the session
C2_ReplaceGivenUsedNumberThenHeartbeat ==
    /\ Len(shots) = 3
    /\ shots[1].by = "Shot"
    /\ shots[2].by = "replace"
    /\ shots[2].given = PyInt(ShotNumberOf(shots[1].shot))
    /\ shots[3].by = "heartbeat"
    /\ last.op = "send_heartbeat"

(***************************************************************************)
(* Claims about the session, checked under Spec                            *)
(***************************************************************************)
IsPrefix(a, b) == Len(a) <= Len(b) /\ SubSeq(b, 1, Len(a)) = a

SendOps == {"send_shot", "send_heartbeat"}

OpenOnlyOps == SendOps \cup {"recv_data", "data_available"}

\* C3: every step leaves the log it found as a prefix of the log it leaves:
\* no entry is removed, replaced or reordered by any call, failing or not.
C3_LogIsAppendOnly ==
    [][IsPrefix(shots_and_responses, shots_and_responses')]_vars

\* C3 witness: a receive failed on a session that had logged two sends
C3_FailedReceiveAfterTwoSends ==
    /\ Len(shots_and_responses) = 2
    /\ last.op = "recv_data"
    /\ last.exc # "None"

\* C4: a receive whose read delivered k >= 1 complete frames ends normally,
\* returns the k messages decoded from them and has appended exactly those,
\* in order, to the log.
C4_ReceiveAppendsAndReturnsMessages ==
    \A fs \in HostReplies :
        LET k == Len(fs)
            msgs == [i \in 1..k |-> create_from_dict(fs[i]).val]
            log == shots_and_responses
        IN (last.op = "recv_data" /\ last.bytes = EncodeAll(fs)) =>
              /\ last.exc = "None"
              /\ last.ret = [t |-> "list", v |-> msgs]
              /\ Len(log) >= k
              /\ SubSeq(log, Len(log) - k + 1, Len(log)) = msgs

\* C5: a send ends normally exactly when its one write was accepted whole;
\* a write that accepted another number of bytes than the payload has makes
\* the send raise (ValueError), and the send writes at most once.
C5_ShortWriteRaises ==
    [][(/\ Len(shots_and_responses') > Len(shots_and_responses)
        /\ last'.op \in SendOps)
          => /\ tx' \in {tx, tx + 1}
             /\ last'.len = Len(as_msg(shots_and_responses'[Len(shots_and_responses')]))
             /\ last'.exc = "None" <=> (tx' = tx + 1 /\ last'.nbytes = last'.len)
             /\ (tx' = tx + 1 /\ last'.nbytes # last'.len) => last'.exc = "ValueError"]_vars

\* C5 witness: a send raised because the write accepted a part of the payload
C5_SendRaisedOnShortWrite ==
    /\ last.op = "send_shot"
    /\ last.exc = "ValueError"
    /\ 0 < last.nbytes
    /\ last.nbytes < last.len

C7_ZeroByteReadIsReported ==
    (last.op = "recv_data" /\ last.bytes = <<>>) => last.exc # "None"

\* C11: a send_heartbeat builds one new Shot and hands its serialisation to
\* the socket: the message has no BallData key, its ShotDataOptions are
\* ContainsBallData false, ContainsClubData false, IsHeartbeat true, its
\* ShotNumber is above that of every Shot built before, and when the call
\* ends normally that Shot is the last entry of the log.
C11_HeartbeatIsBuiltAndSent ==
    [][(/\ shots_and_responses' # shots_and_responses
        /\ last'.op = "send_heartbeat")
          => LET sent == json_loads(last'.bytes)
                 log == shots_and_responses'
             IN /\ Len(shots') = Len(shots) + 1
                /\ sent.ok
                /\ K_BallData \notin DictKeys(sent.val)
                /\ DictGet(sent.val, K_ShotDataOptions)
                      = PyDict(<< <<K_ContainsBallData, PyBool(FALSE)>>,
                                  <<K_ContainsClubData, PyBool(FALSE)>>,
                                  <<K_IsHeartbeat, PyBool(TRUE)>> >>)
                /\ \A i \in 1..Len(shots) :
                      ShotNumberOf(shots[i].shot) < DictGet(sent.val, K_ShotNumber).v
                /\ last'.exc = "None" =>
                      /\ log[Len(log)] = shots'[Len(shots')].shot
                      /\ as_msg(log[Len(log)]) = last'.bytes]_vars

\* C11 witness: a heartbeat was sent whole after another Shot had been built
C11_HeartbeatSentAfterAShot ==
    /\ last.op = "send_heartbeat"
    /\ last.exc = "None"
    /\ Len(shots) = 2
    /\ shots[1].by = "Shot"
    /\ shots_and_responses = <<shots[2].shot>>

\* C14: data_available on an open session returns false when no bytes of the
\* host are waiting unread and true when some are; it takes none of them and
\* leaves the log and the state of the session as they were.
C14_PollTellsWhetherBytesWait ==
    [][(/\ last' # last
        /\ last'.op = "data_available"
        /\ sock = "open")
          => /\ last'.exc = "None"
             /\ last'.ret = PyBool(rx # <<>>)
             /\ rx' = rx
             /\ shots_and_responses' = shots_and_responses
             /\ sock' = sock]_vars

(***************************************************************************)
(* Claims about the probe loop of parse_gspro_data, checked under          *)
(* SpecParse                                                               *)
(***************************************************************************)

\* C15: after every failed trial parse of a prefix ending at a `}`, the first
\* of an object or a later one, the probe position is one past that `}`.
C15_ProbeMovesPastTriedBrace ==
    [][(/\ ppc = "probe"
        /\ ppc' = "probe"
        /\ idx_of_close_bracket' >= 0)
          => start' = idx_of_close_bracket' + 1]_vars

\* C16: a trial parse that succeeds accepts exactly the text of the next
\* frame of the host, so the objects accepted so far are the first frames in
\* order and the cursor is at the end of the last of them; when the splitter
\* returns, the result is all the frames and they tile the whole buffer.
C16_AcceptedPrefixIsTheObject ==
    [][/\ (ppc = "probe" /\ ppc' = "while") =>
             LET n == Len(result')
             IN /\ n <= Len(frames)
                /\ substr' = host_dumps(frames[n])
                /\ result' = SubSeq(frames, 1, n)
                /\ len_processed' = Len(EncodeAll(SubSeq(frames, 1, n)))
       /\ (ppc # "return" /\ ppc' = "return") =>
             /\ result' = frames
             /\ len_processed' = Len(data)
             /\ data = EncodeAll(frames)]_vars

\* C16 witness: the splitter returned three objects, one of them holding a
\* nested object whose `}` was tried first
C16_ReturnedThreeWithNested ==
    /\ ppc = "return"
    /\ Len(result) = 3
    /\ \E i \in 1..3 : \E j \in 1..Len(result[i].v) : result[i].v[j][2].t = "dict"

\* a frame holds a string value with a `}` in it
HasBraceInString(fs) ==
    \E i \in 1..Len(fs) : \E j \in 1..Len(fs[i].v) :
        LET val == fs[i].v[j][2]
        IN val.t = "str" /\ \E k \in 1..Len(val.v) : val.v[k] = "}"

C18_FailedSendLeavesLog ==
    [][(/\ <<last, tx, shots_and_responses>>' # <<last, tx, shots_and_responses>>
        /\ last'.op \in SendOps
        /\ last'.exc # "None")
          => shots_and_responses' = shots_and_responses]_vars

\* the Shots of the log, in log order
LogShots == SelectSeq(shots_and_responses, LAMBDA e : e.t = "Shot")

\* C19: whatever commands main is given, the Shots of the log have strictly
\* increasing ShotNumbers in log order.
C19_LoggedShotNumbersIncrease ==
    \A i, j \in 1..Len(LogShots) :
        i < j => ShotNumberOf(LogShots[i]) < ShotNumberOf(LogShots[j])

\* C19 witness: a hit, a heartbeat and a second hit are in the log, and the
\* second hit asked for a ShotNumber that the heartbeat had already taken
C19_HitHeartbeatHit ==
    /\ Len(shots) = 4
    /\ shots_and_responses = <<shots[2].shot, shots[3].shot, shots[4].shot>>
    /\ shots[2].by = "replace"
    /\ shots[3].by = "heartbeat"
    /\ shots[4].by = "replace"
    /\ shots[4].given = PyInt(ShotNumberOf(shots[3].shot))

=============================================================================
